---------------------------- MODULE Spec2Model ----------------------------
(***************************************************************************)
(* Model of astrbot_plugin_command_manager (src/assets/main.py).           *)
(*                                                                         *)
(* The plugin keeps one JSON configuration document (ConfigManager), lets  *)
(* a web editor replace its category list (WebUIManager), renders the      *)
(* catalog as text or image on a chat command (CommandManagerPlugin) and   *)
(* owns a lazily started headless browser (HTMLRenderer).                  *)
(*                                                                         *)
(* Values.  A Python dict / JSON object is a TLA+ record whose DOMAIN is   *)
(* the set of keys that are present (<<>> is the empty object), a list is  *)
(* a sequence.  The top-level configuration value carries its Python type  *)
(* because json.load returns whatever the file holds:                      *)
(*     [type |-> "dict", members |-> r]   or   [type |-> "list"].          *)
(* An operation that can raise returns a record with a field "raised".     *)
(***************************************************************************)
EXTENDS Integers, Sequences, FiniteSets, Bags, TLC

VARIABLES
    commands_file,     \* ConfigManager.commands_file: content of custom_commands.json
    custom_commands,   \* ConfigManager.custom_commands: the in-memory document
    storeLog,          \* the last ConfigManager call: its name, argument and outcome
    saveInFlight,      \* bodies of POST /api/save-config requests awaiting request.json()
    httpResponse,      \* the response of the web request that completed last
    lastSave,          \* history: the list carried by the save request that completed last
    initialized,       \* HTMLRenderer.initialized
    playwright,        \* HTMLRenderer.playwright is not None
    browser,           \* HTMLRenderer.browser: 0 for None, else the handle of a browser process
    browsers,          \* the browser processes launched and still running
    task,              \* where each task that can call initialize() stands
    cover_image_path,  \* the plugin's cover_image_path attribute, once it is assigned
    adminReplies,      \* replies of the admin command invocation in progress or last made
    helpReq,           \* the help invocation suspended in its render, if any
    helpLog,           \* the last help invocation: replies, collaborators used, outcome
    tempFiles,         \* image files in the scratch directory
    cleanups,          \* image files with a deferred deletion scheduled
    created,           \* number of image files created so far
    extractLog,        \* the last CommandParser.get_all_commands call: registry and result
    formatLog,         \* the last generate_help_html call: categories, clock and result
    adminLog           \* the last help_admin invocation other than the dependency install

storeVars  == <<commands_file, custom_commands, storeLog>>
webVars    == <<saveInFlight, httpResponse, lastSave>>
renderVars == <<initialized, playwright, browser, browsers>>
taskVars   == <<task, cover_image_path, adminReplies>>
fileVars   == <<tempFiles, cleanups, created>>
helpVars   == <<helpReq, helpLog>>
hostVars   == <<extractLog, formatLog, adminLog>>
vars       == <<storeVars, webVars, renderVars, taskVars, fileVars, helpVars, hostVars>>
notStore   == <<webVars, renderVars, taskVars, fileVars, helpVars, hostVars>>
notWeb     == <<renderVars, taskVars, fileVars, helpVars, hostVars>>

-----------------------------------------------------------------------------
(* JSON / dict helpers *)

\* dict.get(key, default)
DictGet(d, key, default) == IF key \in DOMAIN d THEN d[key] ELSE default

\* d[key] = value on a dict
DictPut(d, key, value) ==
    [k \in (DOMAIN d) \cup {key} |-> IF k = key THEN value ELSE d[k]]

Dict(r) == [type |-> "dict", members |-> r]

JsonList == [type |-> "list"]

-----------------------------------------------------------------------------
(* Values the store is exercised with *)

CmdDesc   == [name |-> "a", desc |-> "da"]
CmdNoDesc == [name |-> "b"]
CmdEmpty  == [name |-> "c", desc |-> ""]

CatA          == [name |-> "A", commands |-> <<CmdDesc, CmdNoDesc>>]
CatB          == [name |-> "B", commands |-> <<>>]
CatNoName     == [commands |-> <<CmdEmpty>>]
CatNoCommands == [name |-> "C"]

\* longest category list / command list of the generated documents
MaxCategories == 2
MaxCommands == 2

\* every command list up to MaxCommands over two commands, every category list
\* up to MaxCategories over the categories built from them and three more
CommandLists == UNION {[1..n -> {CmdDesc, CmdNoDesc}] : n \in 0..MaxCommands}

CatEmptyDesc == [name |-> "E", commands |-> <<CmdEmpty, CmdDesc>>]

CategoryPool ==
    {[name |-> "A", commands |-> c] : c \in CommandLists}
    \cup {CatEmptyDesc, CatNoName, CatNoCommands}

CategoryLists == UNION {[1..n -> CategoryPool] : n \in 0..MaxCategories}

\* documents the help command is exercised with
HelpDocs ==
    {JsonList}
    \cup {Dict(<<>>)}
    \cup {Dict([enabled |-> e]) : e \in BOOLEAN}
    \cup {Dict([categories |-> c]) : c \in CategoryLists}
    \cup {Dict([enabled |-> e, categories |-> c]) : e \in BOOLEAN, c \in CategoryLists}

\* category lists an editor submits / a file holds
StoreLists == {<<>>, <<CatA>>, <<CatB, CatA>>, <<CatNoName>>, <<CatNoCommands>>}

\* JSON documents a configuration file can hold: objects with any subset of
\* the two keys, and a JSON value that is no object
FileDocs ==
    {JsonList}
    \cup {Dict(<<>>)}
    \cup {Dict([enabled |-> e]) : e \in BOOLEAN}
    \cup {Dict([categories |-> c]) : c \in StoreLists}
    \cup {Dict([enabled |-> e, categories |-> c]) : e \in BOOLEAN, c \in StoreLists}

FileMissing    == [kind |-> "missing"]
FileCorrupt    == [kind |-> "corrupt"]      \* exists, is not JSON (also a truncated write)
FileUnreadable == [kind |-> "unreadable"]   \* exists, open() raises OSError
FileJson(doc)  == [kind |-> "json", value |-> doc]

FileContents == {FileMissing, FileCorrupt, FileUnreadable} \cup {FileJson(d) : d \in FileDocs}

\* save requests that can be suspended at the same time
MaxInFlight == 2

\* browser processes the host can run
MaxBrowsers == 2

\* image files created in one run
MaxFiles == 2

\* outcome of one attempt to write the file
WriteOutcomes == {"ok", "open_fails", "dump_fails"}

-----------------------------------------------------------------------------
(* ConfigManager *)

DefaultConfig == Dict([categories |-> <<>>, enabled |-> TRUE])

\* the try block of load_custom_commands: what it returns, or which way it leaves
TryLoad(file) ==
    CASE file.kind = "missing"    -> [exc |-> FALSE, returned |-> FALSE]
      [] file.kind = "unreadable" -> [exc |-> TRUE,  returned |-> FALSE]
      [] file.kind = "corrupt"    -> [exc |-> TRUE,  returned |-> FALSE]
      [] file.kind = "json"       -> [exc |-> FALSE, returned |-> TRUE, data |-> file.value]

\* load_custom_commands with `except json.JSONDecodeError` in place of
\* `except Exception`: an OSError of open() leaves the method
load_custom_commands_narrow_except(file) ==
    LET t == TryLoad(file) IN
    IF t.returned THEN [raised |-> FALSE, value |-> t.data]
    ELSE [raised |-> file.kind = "unreadable", value |-> DefaultConfig]

\* load_custom_commands: `except Exception` swallows every failure of the try block
load_custom_commands(file) ==
    LET t == TryLoad(file) IN
    IF t.returned THEN [raised |-> FALSE, value |-> t.data]
    ELSE [raised |-> FALSE, value |-> DefaultConfig]

\* json.dump(self.custom_commands, f): what a complete write leaves on disk
JsonDump(doc) == FileJson(doc)

\* save_custom_commands under write outcome w: the new file content and the result.
\* open(..., 'w') truncates before json.dump runs, so a failing dump leaves a
\* file that is not JSON.
save_custom_commands(doc, file, w) ==
    CASE w = "ok"         -> [file |-> JsonDump(doc),  ret |-> TRUE]
      [] w = "open_fails" -> [file |-> file,           ret |-> FALSE]
      [] w = "dump_fails" -> [file |-> FileCorrupt,    ret |-> FALSE]

\* is_enabled: self.custom_commands.get('enabled', True)
is_enabled(doc) ==
    IF doc.type = "dict"
    THEN [raised |-> FALSE, value |-> DictGet(doc.members, "enabled", TRUE)]
    ELSE [raised |-> TRUE]

\* get_categories: self.custom_commands.get('categories', [])
get_categories(doc) ==
    IF doc.type = "dict"
    THEN [raised |-> FALSE, value |-> DictGet(doc.members, "categories", <<>>)]
    ELSE [raised |-> TRUE]

\* set_enabled that stores a new document holding the flag alone
set_enabled_new_document(doc, file, enabled, w) ==
    IF doc.type = "dict"
    THEN LET d == Dict([enabled |-> enabled])
             s == save_custom_commands(d, file, w)
         IN  [raised |-> FALSE, doc |-> d, file |-> s.file]
    ELSE [raised |-> TRUE, doc |-> doc, file |-> file]

\* set_enabled: item assignment, then save; nothing is caught here
set_enabled(doc, file, enabled, w) ==
    IF doc.type = "dict"
    THEN LET d == Dict(DictPut(doc.members, "enabled", enabled))
             s == save_custom_commands(d, file, w)
         IN  [raised |-> FALSE, doc |-> d, file |-> s.file]
    ELSE [raised |-> TRUE, doc |-> doc, file |-> file]

\* set_categories that saves before it assigns: the old document is persisted
set_categories_save_first(doc, file, categories, w) ==
    IF doc.type = "dict"
    THEN LET d == Dict(DictPut(doc.members, "categories", categories))
             s == save_custom_commands(doc, file, w)
         IN  [raised |-> FALSE, ret |-> s.ret, doc |-> d, file |-> s.file]
    ELSE [raised |-> FALSE, ret |-> FALSE, doc |-> doc, file |-> file]

\* set_categories: item assignment and save inside try/except, returns success
set_categories(doc, file, categories, w) ==
    IF doc.type = "dict"
    THEN LET d == Dict(DictPut(doc.members, "categories", categories))
             s == save_custom_commands(d, file, w)
         IN  [raised |-> FALSE, ret |-> s.ret, doc |-> d, file |-> s.file]
    ELSE [raised |-> FALSE, ret |-> FALSE, doc |-> doc, file |-> file]

-----------------------------------------------------------------------------
(* ImageGenerator: the catalog formatter *)

\* the placeholder generate_help_html shows for a command without 'desc'
NoDescPlaceholder == "no description"

IsWellFormedCategory(category) == {"name", "commands"} \subseteq DOMAIN category

\* a total that counts the first category only
SumCommandsFirstOnly(categories) ==
    IF categories = <<>> THEN 0 ELSE Len(Head(categories).commands)

RECURSIVE SumCommands(_)
SumCommands(categories) ==
    IF categories = <<>> THEN 0
    ELSE Len(Head(categories).commands) + SumCommands(Tail(categories))

CommandRow(cmd) ==
    [name |-> DictGet(cmd, "name", ""), desc |-> DictGet(cmd, "desc", NoDescPlaceholder)]

CategoryBlock(category) ==
    [title |-> category.name,
     count |-> Len(category.commands),
     rows  |-> [i \in 1..Len(category.commands) |-> CommandRow(category.commands[i])]]

\* generate_help_html: the header counts, one block per category, and the
\* footer with datetime.now(); cat['commands'] and category['name'] raise
\* KeyError on an entry without the key
generate_help_html(categories, now) ==
    IF \E i \in 1..Len(categories) : ~IsWellFormedCategory(categories[i])
    THEN [raised |-> TRUE]
    ELSE [raised |-> FALSE,
          html |-> [category_count |-> Len(categories),
                    command_count  |-> SumCommands(categories),
                    blocks |-> [i \in 1..Len(categories) |-> CategoryBlock(categories[i])],
                    generated_at |-> now]]

-----------------------------------------------------------------------------
(* WebUIManager.get_web_url *)

port == 8081

get_web_url == "http://localhost:" \o ToString(port)

-----------------------------------------------------------------------------
(* CommandManagerPlugin.show_help: the replies *)

Line(kind, text) == [kind |-> kind, text |-> text]

Plain(lines) == [type |-> "plain", lines |-> lines]
Image(path)  == [type |-> "image", path |-> path]

\* event.plain_result("帮助功能暂未启用")
DisabledMessage == Plain(<<Line("disabled", "help is not enabled")>>)

\* the 'no configured menu' message, ending in the editor URL
NoMenuMessage ==
    Plain(<<Line("no_menu", "no help menu configured"),
            Line("blank", ""),
            Line("no_menu", "configure your categories in the Web UI:"),
            Line("link", get_web_url)>>)

\* event.plain_result("❌ 生成帮助时出现错误，请查看日志")
ErrorMessage == Plain(<<Line("error", "error while generating help")>>)

\* one command of the text catalog, after the bullet: "/name - desc" or "/name"
CommandLine(cmd) ==
    LET cmd_name == DictGet(cmd, "name", "")
        cmd_desc == DictGet(cmd, "desc", "")
    IN  IF cmd_desc # ""
        THEN Line("command", "/" \o cmd_name \o " - " \o cmd_desc)
        ELSE Line("command", "/" \o cmd_name)

\* the lines one category adds: its title, its commands, a blank line
CategoryLines(category) ==
    <<Line("category", category.name)>>
    \o [i \in 1..Len(category.commands) |-> CommandLine(category.commands[i])]
    \o <<Line("blank", "")>>

RECURSIVE CatalogLines(_)
CatalogLines(categories) ==
    IF categories = <<>> THEN <<>>
    ELSE CategoryLines(Head(categories)) \o CatalogLines(Tail(categories))

\* the text catalog: category['name'] / category['commands'] raise KeyError on
\* an entry without the key, before anything is yielded
HelpText(categories, notice, with_hint) ==
    IF \E i \in 1..Len(categories) : ~IsWellFormedCategory(categories[i])
    THEN [raised |-> TRUE]
    ELSE [raised |-> FALSE,
          reply |-> Plain(<<Line("title", "AstrBot command help"), Line("notice", notice)>>
                          \o CatalogLines(categories)
                          \o <<Line("link", get_web_url)>>
                          \o (IF with_hint THEN <<Line("hint", "install dependencies")>>
                              ELSE <<>>))]

\* show_help without its `if not self.html_renderer.initialized` test
ShowHelpCatalogAlwaysRender(categories, renderer_ready, now) ==
    LET h == generate_help_html(categories, now) IN
    IF h.raised
    THEN [raised |-> FALSE, replies |-> <<ErrorMessage>>,
          calls |-> {"generate_help_html"}, next |-> "done"]
    ELSE [raised |-> FALSE, replies |-> <<>>,
          calls |-> {"generate_help_html", "render_html_to_image"},
          next |-> "render", categories |-> categories, html |-> h.html]

\* show_help from the renderer test on: the text catalog when the renderer is
\* not ready, else the formatter inside the try block and the render
ShowHelpCatalog(categories, renderer_ready, now) ==
    IF ~renderer_ready
    THEN LET t == HelpText(categories, "image generation unavailable", TRUE) IN
         IF t.raised
         THEN [raised |-> TRUE, replies |-> <<>>, calls |-> {}, next |-> "done"]
         ELSE [raised |-> FALSE, replies |-> <<t.reply>>, calls |-> {}, next |-> "done"]
    ELSE LET h == generate_help_html(categories, now) IN
         IF h.raised
         THEN [raised |-> FALSE, replies |-> <<ErrorMessage>>,
               calls |-> {"generate_help_html"}, next |-> "done"]
         ELSE [raised |-> FALSE, replies |-> <<>>,
               calls |-> {"generate_help_html", "render_html_to_image"},
               next |-> "render", categories |-> categories, html |-> h.html]

\* show_help without its `if not categories` test
ShowHelpEnabledNoEmptyTest(categories, renderer_ready, now) ==
    ShowHelpCatalog(categories, renderer_ready, now)

\* show_help once the store is known to be enabled: `if not categories`
ShowHelpEnabled(categories, renderer_ready, now) ==
    IF categories = <<>>
    THEN [raised |-> FALSE, replies |-> <<NoMenuMessage>>, calls |-> {}, next |-> "done"]
    ELSE ShowHelpCatalog(categories, renderer_ready, now)

\* show_help with the category test moved in front of the enabled test
show_help_categories_first(doc, renderer_ready, now) ==
    LET enabled == is_enabled(doc) IN
    IF enabled.raised
    THEN [raised |-> TRUE, replies |-> <<>>, calls |-> {}, next |-> "done"]
    ELSE IF get_categories(doc).value = <<>>
    THEN [raised |-> FALSE, replies |-> <<NoMenuMessage>>, calls |-> {}, next |-> "done"]
    ELSE IF ~enabled.value
    THEN [raised |-> FALSE, replies |-> <<DisabledMessage>>, calls |-> {}, next |-> "done"]
    ELSE ShowHelpCatalog(get_categories(doc).value, renderer_ready, now)

\* show_help up to its first suspension point.  `calls` lists the collaborators
\* the invocation used; next = "render" when it suspends in render_html_to_image.
show_help(doc, renderer_ready, now) ==
    LET enabled == is_enabled(doc) IN
    IF enabled.raised
    THEN [raised |-> TRUE, replies |-> <<>>, calls |-> {}, next |-> "done"]
    ELSE IF ~enabled.value
    THEN [raised |-> FALSE, replies |-> <<DisabledMessage>>, calls |-> {}, next |-> "done"]
    ELSE ShowHelpEnabled(get_categories(doc).value, renderer_ready, now)

\* show_help after the render returned, without the text fallback
show_help_rendered_no_fallback(categories, image_path) ==
    IF image_path # 0
    THEN [raised |-> FALSE, replies |-> <<Image(image_path)>>, cleanup |-> TRUE]
    ELSE [raised |-> FALSE, replies |-> <<ErrorMessage>>, cleanup |-> FALSE]

\* show_help after the render returned: the image, or the text fallback
show_help_rendered(categories, image_path) ==
    IF image_path # 0
    THEN [raised |-> FALSE, replies |-> <<Image(image_path)>>, cleanup |-> TRUE]
    ELSE LET t == HelpText(categories, "image generation failed", FALSE) IN
         IF t.raised
         THEN [raised |-> FALSE, replies |-> <<ErrorMessage>>, cleanup |-> FALSE]
         ELSE [raised |-> FALSE, replies |-> <<t.reply>>, cleanup |-> FALSE]

-----------------------------------------------------------------------------
(* Store operations as steps *)

\* ConfigManager.__init__: self.custom_commands = self.load_custom_commands()
StoreInit ==
    /\ commands_file \in FileContents
    /\ LET l == load_custom_commands(commands_file) IN
       /\ custom_commands = l.value
       /\ storeLog = [op |-> "load", raised |-> l.raised, from |-> commands_file]

\* reload_config
ReloadConfig ==
    LET l == load_custom_commands(commands_file) IN
    /\ custom_commands' = (IF l.raised THEN custom_commands ELSE l.value)
    /\ storeLog' = [op |-> "reload", raised |-> l.raised, from |-> commands_file]
    /\ UNCHANGED <<commands_file, notStore>>

\* set_enabled(b)
SetEnabled ==
    \E b \in BOOLEAN, w \in WriteOutcomes :
        LET r == set_enabled(custom_commands, commands_file, b, w) IN
        /\ custom_commands' = r.doc
        /\ commands_file' = r.file
        /\ storeLog' = [op |-> "set_enabled", raised |-> r.raised, arg |-> b]
        /\ UNCHANGED notStore

\* set_categories(X)
SetCategories ==
    \E X \in StoreLists, w \in WriteOutcomes :
        LET r == set_categories(custom_commands, commands_file, X, w) IN
        /\ custom_commands' = r.doc
        /\ commands_file' = r.file
        /\ storeLog' = [op |-> "set_categories", raised |-> r.raised,
                        arg |-> X, ret |-> r.ret]
        /\ UNCHANGED notStore

\* the plugin is loaded again: a fresh ConfigManager over the same file
Restart ==
    LET l == load_custom_commands(commands_file) IN
    /\ custom_commands' = (IF l.raised THEN custom_commands ELSE l.value)
    /\ storeLog' = [op |-> "load", raised |-> l.raised, from |-> commands_file]
    /\ UNCHANGED <<commands_file, notStore>>

StoreNext == ReloadConfig \/ SetEnabled \/ SetCategories \/ Restart

-----------------------------------------------------------------------------
(* CommandParser: the catalog extractor *)

SelfName == "astrbot_plugin_command_manager"

\* the filter loop with the command filter preferred wherever it stands
FirstCommandNameCommandFirst(filters) ==
    LET commands == SelectSeq(filters, LAMBDA f : f.type = "CommandFilter")
        groups   == SelectSeq(filters, LAMBDA f : f.type = "CommandGroupFilter")
    IN  IF commands # <<>> THEN commands[1].command_name
        ELSE IF groups # <<>> THEN groups[1].group_name
        ELSE ""

\* the filter loop of one handler: the first CommandFilter or CommandGroupFilter
\* of handler.event_filters decides; "" stands for None
RECURSIVE FirstCommandName(_)
FirstCommandName(filters) ==
    IF filters = <<>> THEN ""
    ELSE LET f == Head(filters) IN
         CASE f.type = "CommandFilter"      -> f.command_name
           [] f.type = "CommandGroupFilter" -> f.group_name
           [] OTHER                         -> FirstCommandName(Tail(filters))

\* f"{command_name}#{description}" or the bare name
FormatCommand(command_name, description) ==
    IF description # "" THEN command_name \o "#" \o description ELSE command_name

\* a membership test that never finds anything
InSeqNever(x, seq) == FALSE

InSeq(x, seq) == \E i \in 1..Len(seq) : seq[i] = x

\* the handler loop for one plugin: plugin_commands after scanning `handlers`
RECURSIVE ScanHandlers(_, _, _, _)
ScanHandlers(handlers, plugin_name, module_path, plugin_commands) ==
    IF handlers = <<>> THEN plugin_commands
    ELSE
      LET h    == Head(handlers)
          rest == Tail(handlers)
          skip == ~h.is_metadata \/ h.handler_module_path # module_path
          cn   == FirstCommandName(h.event_filters)
          fc   == FormatCommand(cn, h.desc)
          have == DictGet(plugin_commands, plugin_name, <<>>)
      IN  IF skip \/ cn = "" THEN ScanHandlers(rest, plugin_name, module_path, plugin_commands)
          ELSE IF InSeq(fc, have)
               THEN ScanHandlers(rest, plugin_name, module_path,
                                 DictPut(plugin_commands, plugin_name, have))
               ELSE ScanHandlers(rest, plugin_name, module_path,
                                 DictPut(plugin_commands, plugin_name, Append(have, fc)))

\* the plugin loop without the test for the plugin's own name
RECURSIVE ScanStarsListsSelf(_, _, _)
ScanStarsListsSelf(stars, handlers, plugin_commands) ==
    IF stars = <<>> THEN plugin_commands
    ELSE
      LET star == Head(stars) IN
      IF star.name = "" \/ star.module_path = ""
      THEN ScanStarsListsSelf(Tail(stars), handlers, plugin_commands)
      ELSE ScanStarsListsSelf(Tail(stars), handlers,
                     ScanHandlers(handlers, star.name, star.module_path, plugin_commands))

\* the plugin loop: "" stands for a missing name or module path
RECURSIVE ScanStars(_, _, _)
ScanStars(stars, handlers, plugin_commands) ==
    IF stars = <<>> THEN plugin_commands
    ELSE
      LET star == Head(stars) IN
      IF star.name = SelfName \/ star.name = "" \/ star.module_path = ""
      THEN ScanStars(Tail(stars), handlers, plugin_commands)
      ELSE ScanStars(Tail(stars), handlers,
                     ScanHandlers(handlers, star.name, star.module_path, plugin_commands))

\* get_all_commands: {} when the registry cannot be read or no plugin is active
get_all_commands(registry) ==
    IF registry.get_all_stars_raises THEN <<>>
    ELSE LET active == SelectSeq(registry.stars, LAMBDA star : star.activated) IN
         IF active = <<>> THEN <<>>
         ELSE ScanStars(active, registry.star_handlers_registry, <<>>)

\* host registries the web endpoint is exercised with
HelloFilter == [type |-> "CommandFilter", command_name |-> "hello"]
ToolsFilter == [type |-> "CommandGroupFilter", group_name |-> "tools"]
OtherFilter == [type |-> "PermissionTypeFilter"]

DemoHandlers ==
    << [is_metadata |-> TRUE, handler_module_path |-> "plugins.demo", desc |-> "greets",
        event_filters |-> <<OtherFilter, HelloFilter>>],
       [is_metadata |-> TRUE, handler_module_path |-> "plugins.demo", desc |-> "",
        event_filters |-> <<ToolsFilter, HelloFilter>>],
       [is_metadata |-> TRUE, handler_module_path |-> "plugins.demo", desc |-> "greets",
        event_filters |-> <<HelloFilter>>],
       [is_metadata |-> TRUE, handler_module_path |-> "plugins.self", desc |-> "",
        event_filters |-> <<[type |-> "CommandFilter", command_name |-> "help"]>>] >>

DemoStars ==
    << [name |-> "demo", module_path |-> "plugins.demo", activated |-> TRUE],
       [name |-> SelfName, module_path |-> "plugins.self", activated |-> TRUE],
       [name |-> "asleep", module_path |-> "plugins.asleep", activated |-> FALSE] >>

Registries ==
    { [get_all_stars_raises |-> TRUE,  stars |-> <<>>, star_handlers_registry |-> <<>>],
      [get_all_stars_raises |-> FALSE, stars |-> <<>>, star_handlers_registry |-> <<>>],
      [get_all_stars_raises |-> FALSE, stars |-> DemoStars,
       star_handlers_registry |-> DemoHandlers] }

\* longest plugin list / handler list of the generated registries
MaxStars == 2
MaxHandlers == 2

EmptyNameFilter == [type |-> "CommandFilter", command_name |-> ""]

\* plugins: active, inactive, the plugin itself, one without a module path
StarPool ==
    { [name |-> "demo",   module_path |-> "plugins.demo",  activated |-> TRUE],
      [name |-> "asleep", module_path |-> "plugins.demo",  activated |-> FALSE],
      [name |-> "other",  module_path |-> "plugins.other", activated |-> TRUE],
      [name |-> SelfName, module_path |-> "plugins.self",  activated |-> TRUE],
      [name |-> "nomod",  module_path |-> "",              activated |-> TRUE] }

\* handlers: a command, a command before a group, a group before a command,
\* no command filter, an empty command name, another module, the own module
HandlerPool ==
    { [is_metadata |-> TRUE, handler_module_path |-> "plugins.demo", desc |-> "d",
       event_filters |-> <<HelloFilter>>],
      [is_metadata |-> TRUE, handler_module_path |-> "plugins.demo", desc |-> "",
       event_filters |-> <<HelloFilter, ToolsFilter>>],
      [is_metadata |-> TRUE, handler_module_path |-> "plugins.demo", desc |-> "",
       event_filters |-> <<OtherFilter, ToolsFilter, HelloFilter>>],
      [is_metadata |-> TRUE, handler_module_path |-> "plugins.demo", desc |-> "d",
       event_filters |-> <<OtherFilter>>],
      [is_metadata |-> TRUE, handler_module_path |-> "plugins.other", desc |-> "",
       event_filters |-> <<EmptyNameFilter, ToolsFilter>>],
      [is_metadata |-> TRUE, handler_module_path |-> "plugins.other", desc |-> "d",
       event_filters |-> <<OtherFilter, ToolsFilter>>],
      [is_metadata |-> TRUE, handler_module_path |-> "plugins.self", desc |-> "",
       event_filters |-> <<HelloFilter>>] }

StarLists == UNION {[1..n -> StarPool] : n \in 0..MaxStars}

HandlerLists == UNION {[1..n -> HandlerPool] : n \in 0..MaxHandlers}

\* a registry that can be read, and the one that cannot
Registry(stars, handlers) ==
    [get_all_stars_raises |-> FALSE, stars |-> stars, star_handlers_registry |-> handlers]

UnreadableRegistry ==
    [get_all_stars_raises |-> TRUE, stars |-> <<>>, star_handlers_registry |-> <<>>]

ExtractInit ==
    /\ extractLog = [called |-> FALSE]
    /\ formatLog = [called |-> FALSE]
    /\ adminLog = [called |-> FALSE]

\* one call of CommandParser.get_all_commands, over every registry built from
\* the two pools and over the unreadable one; the call keeps no state, so a
\* run follows a single call
Extract ==
    /\ ~extractLog.called
    /\ \E stars \in StarLists, handlers \in HandlerLists, readable \in BOOLEAN :
        LET registry == IF readable THEN Registry(stars, handlers)
                        ELSE UnreadableRegistry
        IN
        /\ extractLog' = [called |-> TRUE, registry |-> registry,
                          result |-> get_all_commands(registry)]
        /\ UNCHANGED <<storeVars, webVars, renderVars, taskVars, fileVars, helpVars,
                       formatLog, adminLog>>

-----------------------------------------------------------------------------
(* WebUIManager: the four route handlers *)

\* bodies of POST /api/save-config
BodyMalformed     == [kind |-> "malformed"]                           \* request.json() raises
BodyArray         == [kind |-> "array"]                               \* valid JSON, no object
BodyNoCategories  == [kind |-> "object", categories |-> "absent"]
BodyNullCategories == [kind |-> "object", categories |-> "null"]
BodyList(X)       == [kind |-> "object", categories |-> "list", list |-> X]

WebLists == {<<>>, <<CatA>>, <<CatNoName>>}

SaveBodies ==
    {BodyMalformed, BodyArray, BodyNoCategories, BodyNullCategories}
    \cup {BodyList(X) : X \in WebLists}

\* handle_api_save_config after `await request.json()`: the parsed body, then
\* data.get('categories', []), len(categories), set_categories, the response.
\* Every response of this handler is built without a status argument (200).
SaveResponse(success, error) ==
    [route |-> "POST /api/save-config", status |-> 200, payload |-> "json",
     success |-> success, error |-> error]

handle_api_save_config(doc, file, body, w) ==
    IF body.kind # "object" \/ body.categories = "null"
    THEN \* except Exception: malformed body, data.get on a list, len(None)
         [doc |-> doc, file |-> file, stored |-> FALSE,
          response |-> SaveResponse(FALSE, TRUE)]
    ELSE LET categories == IF body.categories = "absent" THEN <<>> ELSE body.list
             r == set_categories(doc, file, categories, w)
         IN  [doc |-> r.doc, file |-> r.file, stored |-> TRUE,
              call |-> [op |-> "set_categories", raised |-> r.raised,
                        arg |-> categories, ret |-> r.ret],
              response |-> SaveResponse(r.ret, ~r.ret)]

\* handle_api_commands: the in-memory document as JSON
handle_api_commands(doc) ==
    [route |-> "GET /api/commands", status |-> 200, payload |-> "json",
     error |-> FALSE, body |-> doc]

\* handle_api_all_commands: the extractor's map as JSON; the extractor swallows
\* a registry failure itself and hands back {}
handle_api_all_commands(registry) ==
    [route |-> "GET /api/all-commands", status |-> 200, payload |-> "json",
     error |-> FALSE, body |-> get_all_commands(registry)]

\* handle_index: web_ui.html next to the module is served, or a text error; a
\* failing read is outside any try and becomes the framework's 500 page
IndexFileStates == {"present", "absent", "unreadable"}

handle_index(html_file) ==
    CASE html_file = "present"    -> [route |-> "GET /", status |-> 200, payload |-> "html",
                                      error |-> FALSE]
      [] html_file = "absent"     -> [route |-> "GET /", status |-> 500, payload |-> "text",
                                      error |-> TRUE]
      [] html_file = "unreadable" -> [route |-> "GET /", status |-> 500, payload |-> "text",
                                      error |-> TRUE]

-----------------------------------------------------------------------------
(* Web requests as steps *)

NoResponse == [route |-> "none"]

WebInit ==
    /\ saveInFlight = EmptyBag
    /\ httpResponse = NoResponse
    /\ lastSave = [set |-> FALSE]

\* a save request arrives and suspends in `await request.json()`
SaveBegin ==
    \E body \in SaveBodies :
        /\ BagCardinality(saveInFlight) < MaxInFlight
        /\ saveInFlight' = saveInFlight (+) SetToBag({body})
        /\ UNCHANGED <<storeVars, httpResponse, lastSave, notWeb>>

\* the rest of handle_api_save_config runs without a suspension point
SaveFinish ==
    \E body \in BagToSet(saveInFlight), w \in WriteOutcomes :
        LET r == handle_api_save_config(custom_commands, commands_file, body, w) IN
        /\ saveInFlight' = saveInFlight (-) SetToBag({body})
        /\ custom_commands' = r.doc
        /\ commands_file' = r.file
        /\ storeLog' = (IF r.stored THEN r.call ELSE storeLog)
        /\ httpResponse' = r.response
        /\ lastSave' = IF body.kind = "object" /\ body.categories = "list"
                       THEN [set |-> TRUE, list |-> body.list]
                       ELSE [set |-> FALSE]
        /\ UNCHANGED notWeb

GetCommands ==
    /\ httpResponse' = handle_api_commands(custom_commands)
    /\ UNCHANGED <<storeVars, saveInFlight, lastSave, notWeb>>

GetAllCommands ==
    \E registry \in Registries :
        /\ httpResponse' = handle_api_all_commands(registry)
        /\ UNCHANGED <<storeVars, saveInFlight, lastSave, notWeb>>

GetIndex ==
    \E html_file \in IndexFileStates :
        /\ httpResponse' = handle_index(html_file)
        /\ UNCHANGED <<storeVars, saveInFlight, lastSave, notWeb>>

WebNext == SaveBegin \/ SaveFinish \/ GetCommands \/ GetAllCommands \/ GetIndex

-----------------------------------------------------------------------------
(* HTMLRenderer and the tasks that call initialize() *)

\* "startup": _install_dependencies, created in __init__
\* "cover":   _generate_cover_image, created in __init__
\* "admin":   help_admin with the install-dependencies sub-action
Tasks == {"startup", "cover", "admin"}

At(t, pc) == task[t].pc = pc

Goto(t, pc) == task' = [task EXCEPT ![t].pc = pc]

\* what the cover task knows of its render_html_to_image call: whether the
\* call went through initialize() and with what result, and what it returned
NoInit == [called |-> FALSE]
NoReturn == [returned |-> FALSE]
RenderReturn(context, path) ==
    [returned |-> TRUE, context |-> context, path |-> path, raised |-> FALSE]

NewBrowser == Cardinality(browsers) + 1

RenderInit ==
    /\ initialized = FALSE
    /\ playwright = FALSE
    /\ browser = 0
    /\ browsers = {}

TaskInit ==
    /\ task = [t \in Tasks |->
                 CASE t = "admin"   -> [pc |-> "idle"]
                   [] t = "startup" -> [pc |-> "created"]
                   [] t = "cover"   -> [pc |-> "created", init |-> NoInit, ret |-> NoReturn]]
    /\ cover_image_path = [assigned |-> FALSE]
    /\ adminReplies = <<>>

FileInit ==
    /\ tempFiles = {}
    /\ cleanups = {}
    /\ created = 0

\* the callers of initialize(), with a render_html_to_image that goes on to
\* its try block whatever initialize() returned
AfterInitialize_render_anyway(t, result) ==
    /\ task' = [task EXCEPT ![t] =
                   IF t = "cover"
                   THEN [@ EXCEPT !.pc = "rendering",
                                  !.init = [called |-> TRUE, ok |-> result]]
                   ELSE [@ EXCEPT !.pc = "done"]]
    /\ UNCHANGED cover_image_path
    /\ adminReplies' = IF t = "admin"
                       THEN Append(adminReplies, "dependencies installed")
                       ELSE adminReplies

\* initialize() has returned `result` to task t, which runs on to its next
\* suspension point or to its end; in render_html_to_image a failed
\* initialize() ends the call with None before the try block
AfterInitialize(t, result) ==
    /\ task' = [task EXCEPT ![t] =
                   IF t = "cover"
                   THEN [@ EXCEPT !.pc = IF result THEN "rendering" ELSE "done",
                                  !.init = [called |-> TRUE, ok |-> result],
                                  !.ret = IF result THEN @ ELSE RenderReturn(FALSE, 0)]
                   ELSE [@ EXCEPT !.pc = "done"]]
    /\ cover_image_path' = IF t = "cover" /\ ~result
                           THEN [assigned |-> TRUE, path |-> 0] ELSE cover_image_path
    /\ adminReplies' = IF t = "admin"
                       THEN Append(adminReplies, "dependencies installed")
                       ELSE adminReplies

\* task t calls initialize(): `import playwright.async_api`, then the first await
EnterInitialize(t, import_ok) ==
    IF import_ok
    THEN Goto(t, "init_start") /\ UNCHANGED <<cover_image_path, adminReplies>>
    ELSE AfterInitialize(t, FALSE)

\* _install_dependencies: install_html_dependencies() returned
StartupInstallDone ==
    \E ok \in BOOLEAN, import_ok \in BOOLEAN :
        /\ At("startup", "created")
        /\ IF ok THEN EnterInitialize("startup", import_ok)
           ELSE Goto("startup", "done") /\ UNCHANGED <<cover_image_path, adminReplies>>
        /\ UNCHANGED <<hostVars, storeVars, webVars, renderVars, fileVars, helpVars>>

\* help_admin("安装依赖"): the first reply, then the await of the installer
AdminInstallBegin ==
    /\ task["admin"].pc \in {"idle", "done"}
    /\ Goto("admin", "install_deps")
    /\ adminReplies' = <<"installing dependencies">>
    /\ UNCHANGED <<hostVars, storeVars, webVars, renderVars, fileVars, helpVars, cover_image_path>>

\* help_admin("安装依赖"): install_html_dependencies() returned
AdminInstallDone ==
    \E ok \in BOOLEAN, import_ok \in BOOLEAN :
        /\ At("admin", "install_deps")
        /\ IF ok THEN EnterInitialize("admin", import_ok)
           ELSE /\ Goto("admin", "done")
                /\ adminReplies' = Append(adminReplies, "dependency install failed")
                /\ UNCHANGED cover_image_path
        /\ UNCHANGED <<hostVars, storeVars, webVars, renderVars, fileVars, helpVars>>

\* _generate_cover_image -> create_cover_image -> render_html_to_image: the
\* `if not self.initialized` test, and initialize() when it is not
CoverBegin ==
    \E import_ok \in BOOLEAN :
        /\ At("cover", "created")
        /\ IF initialized
           THEN Goto("cover", "rendering") /\ UNCHANGED <<cover_image_path, adminReplies>>
           ELSE EnterInitialize("cover", import_ok)
        /\ UNCHANGED <<hostVars, storeVars, webVars, renderVars, fileVars, helpVars>>

\* initialize(): `self.playwright = await async_playwright().start()`
InitStart ==
    \E t \in Tasks, ok \in BOOLEAN :
        /\ At(t, "init_start")
        /\ IF ok THEN playwright' = TRUE /\ Goto(t, "init_launch")
           ELSE UNCHANGED playwright /\ Goto(t, "init_reinstall")
        /\ UNCHANGED <<hostVars, storeVars, webVars, fileVars, helpVars, initialized, browser,
                       browsers, cover_image_path, adminReplies>>

\* the assignments that follow a successful chromium.launch()
Launched ==
    /\ browser' = NewBrowser
    /\ browsers' = browsers \cup {NewBrowser}
    /\ initialized' = TRUE

\* initialize(): `self.browser = await self.playwright.chromium.launch(...)`
InitLaunch ==
    \E t \in Tasks, ok \in BOOLEAN :
        /\ At(t, "init_launch")
        /\ ok => Cardinality(browsers) < MaxBrowsers
        /\ IF ok THEN Launched /\ AfterInitialize(t, TRUE)
           ELSE /\ Goto(t, "init_reinstall")
                /\ UNCHANGED <<initialized, browser, browsers, cover_image_path, adminReplies>>
        /\ UNCHANGED <<hostVars, storeVars, webVars, fileVars, helpVars, playwright>>

\* initialize(): the `playwright install chromium` subprocess ended
InitReinstall ==
    \E t \in Tasks, ok \in BOOLEAN :
        /\ At(t, "init_reinstall")
        /\ IF ok THEN Goto(t, "init_restart") /\ UNCHANGED <<cover_image_path, adminReplies>>
           ELSE AfterInitialize(t, FALSE)
        /\ UNCHANGED <<hostVars, storeVars, webVars, fileVars, helpVars, renderVars>>

\* initialize(): the second `async_playwright().start()`
InitRestart ==
    \E t \in Tasks, ok \in BOOLEAN :
        /\ At(t, "init_restart")
        /\ IF ok THEN /\ playwright' = TRUE
                      /\ Goto(t, "init_relaunch")
                      /\ UNCHANGED <<cover_image_path, adminReplies>>
           ELSE UNCHANGED playwright /\ AfterInitialize(t, FALSE)
        /\ UNCHANGED <<hostVars, storeVars, webVars, fileVars, helpVars, initialized,
                       browser, browsers>>

\* initialize(): the second `chromium.launch(...)`
InitRelaunch ==
    \E t \in Tasks, ok \in BOOLEAN :
        /\ At(t, "init_relaunch")
        /\ ok => Cardinality(browsers) < MaxBrowsers
        /\ IF ok THEN Launched /\ AfterInitialize(t, TRUE)
           ELSE UNCHANGED <<initialized, browser, browsers>> /\ AfterInitialize(t, FALSE)
        /\ UNCHANGED <<hostVars, storeVars, webVars, fileVars, helpVars, playwright>>

\* how the context / page / screenshot sequence of render_html_to_image ends
RenderOutcomes == {"ok", "fails_before_file", "fails_after_file"}

\* render_html_to_image from new_context on: the files on disk afterwards and
\* the path returned (0 for None)
render_html_to_image(outcome) ==
    CASE outcome = "ok" ->
            [path |-> created + 1, files |-> tempFiles \cup {created + 1},
             created |-> created + 1]
      [] outcome = "fails_after_file" ->
            [path |-> 0, files |-> tempFiles \cup {created + 1}, created |-> created + 1]
      [] outcome = "fails_before_file" ->
            [path |-> 0, files |-> tempFiles, created |-> created]

\* _generate_cover_image: the render returned
CoverRenderDone ==
    \E outcome \in RenderOutcomes :
        LET r == render_html_to_image(outcome) IN
        /\ At("cover", "rendering")
        /\ created < MaxFiles
        /\ task' = [task EXCEPT !["cover"] =
                       [@ EXCEPT !.pc = "done", !.ret = RenderReturn(TRUE, r.path)]]
        /\ cover_image_path' = [assigned |-> TRUE, path |-> r.path]
        /\ tempFiles' = r.files
        /\ created' = r.created
        /\ UNCHANGED <<hostVars, storeVars, webVars, renderVars, helpVars, cleanups, adminReplies>>

RenderNext ==
    \/ StartupInstallDone \/ AdminInstallBegin \/ AdminInstallDone \/ CoverBegin
    \/ InitStart \/ InitLaunch \/ InitReinstall \/ InitRestart \/ InitRelaunch
    \/ CoverRenderDone

-----------------------------------------------------------------------------
(* The help command as steps *)

Clock == {1, 2}

NoHelp == [pc |-> "idle"]

HelpInit ==
    /\ helpReq = NoHelp
    /\ helpLog = [started |-> FALSE, done |-> FALSE]

\* show_help runs to its end, or to the await inside render_html_to_image
HelpBegin ==
    \E now \in Clock :
        LET r == show_help(custom_commands, initialized, now) IN
        /\ helpReq = NoHelp
        /\ helpReq' = IF r.next = "render"
                      THEN [pc |-> "rendering", categories |-> r.categories, html |-> r.html]
                      ELSE NoHelp
        /\ helpLog' = [started |-> TRUE, done |-> r.next = "done",
                       raised |-> r.raised, replies |-> r.replies,
                       calls |-> r.calls, document |-> custom_commands,
                       renderer_ready |-> initialized,
                       formatted |-> IF r.next = "render"
                                     THEN [made |-> TRUE, html |-> r.html]
                                     ELSE [made |-> FALSE],
                       rendered |-> [called |-> FALSE]]
        /\ UNCHANGED <<hostVars, storeVars, webVars, renderVars, taskVars, fileVars>>

\* the render returned: the image reply, at whose yield the generator is
\* suspended again, or the text fallback, after which it ends
HelpRenderDone ==
    \E outcome \in RenderOutcomes :
        LET f == render_html_to_image(outcome)
            r == show_help_rendered(helpReq.categories, f.path)
        IN
        /\ helpReq.pc = "rendering"
        /\ created < MaxFiles
        /\ helpReq' = IF r.cleanup THEN [pc |-> "yielded", image_path |-> f.path]
                      ELSE NoHelp
        /\ helpLog' = [helpLog EXCEPT !.done = ~r.cleanup, !.raised = r.raised,
                                     !.replies = r.replies,
                                     !.rendered = [called |-> TRUE, path |-> f.path]]
        /\ tempFiles' = f.files
        /\ created' = f.created
        /\ UNCHANGED <<hostVars, storeVars, webVars, renderVars, taskVars, cleanups>>

\* the generator is resumed after the image reply: cleanup_temp_file is
\* defined and handed to asyncio.create_task, and show_help ends
HelpResume ==
    /\ helpReq.pc = "yielded"
    /\ cleanups' = cleanups \cup {helpReq.image_path}
    /\ helpReq' = NoHelp
    /\ helpLog' = [helpLog EXCEPT !.done = TRUE]
    /\ UNCHANGED <<hostVars, storeVars, webVars, renderVars, taskVars, tempFiles, created>>

\* cleanup_temp_file after its sleep: os.unlink when the file exists
CleanupTempFile ==
    \E path \in cleanups :
        /\ cleanups' = cleanups \ {path}
        /\ tempFiles' = tempFiles \ {path}
        /\ UNCHANGED <<hostVars, storeVars, webVars, renderVars, taskVars, helpVars, created>>

HelpNext == HelpBegin \/ HelpRenderDone \/ HelpResume \/ CleanupTempFile

-----------------------------------------------------------------------------
(* CommandManagerPlugin.help_admin *)

\* the sub-actions help_admin tests for, but for the dependency install, whose
\* awaits are the steps AdminInstallBegin and AdminInstallDone
EnumeratedActions == {"enable", "disable", "reload", "link", "cover", "render_status"}

\* sub-action arguments: the enumerated ones, the default "状态", and a word
\* that is none of them
AdminActions == EnumeratedActions \cup {"status", "unknown"}

\* sum(len(cat.get('commands', [])) for cat in categories)
RECURSIVE SumCommandsOrNone(_)
SumCommandsOrNone(categories) ==
    IF categories = <<>> THEN 0
    ELSE Len(DictGet(Head(categories), "commands", <<>>)) + SumCommandsOrNone(Tail(categories))

\* hasattr(self, 'cover_image_path') and self.cover_image_path
HasCover(cover) == cover.assigned /\ cover.path # 0

\* the else branch: the status-and-help summary; is_enabled() and
\* get_categories() are called on the document as it is
StatusSummary(doc, renderer_ready, cover) ==
    LET enabled    == is_enabled(doc)
        categories == get_categories(doc)
    IN  IF enabled.raised \/ categories.raised
        THEN [raised |-> TRUE, replies |-> <<>>]
        ELSE [raised |-> FALSE,
              replies |-> <<Plain(
                 <<Line("status", IF enabled.value THEN "enabled" ELSE "disabled"),
                   Line("categories", ToString(Len(categories.value))),
                   Line("commands", ToString(SumCommandsOrNone(categories.value))),
                   Line("renderer", IF renderer_ready THEN "ready" ELSE "not ready"),
                   Line("link", get_web_url),
                   Line("operations", "enable disable reload link render_status install")>>
                 \o (IF HasCover(cover) THEN <<Line("operations", "cover")>> ELSE <<>>))>>]

\* help_admin for one sub-action, under write outcome w: the replies, and the
\* document and file it leaves
help_admin(action, doc, file, w, renderer_ready, cover) ==
    CASE action \in {"enable", "disable"} ->
            LET r == set_enabled(doc, file, action = "enable", w) IN
            [raised |-> r.raised, doc |-> r.doc, file |-> r.file,
             replies |-> IF r.raised THEN <<>>
                         ELSE <<Plain(<<Line("done", action)>>)>>]
      [] action = "reload" ->
            [raised |-> FALSE, doc |-> load_custom_commands(file).value, file |-> file,
             replies |-> <<Plain(<<Line("done", "reload")>>)>>]
      [] action = "link" ->
            [raised |-> FALSE, doc |-> doc, file |-> file,
             replies |-> <<Plain(<<Line("link", get_web_url)>>)>>]
      [] action = "cover" /\ HasCover(cover) ->
            [raised |-> FALSE, doc |-> doc, file |-> file,
             replies |-> <<Image(cover.path)>>]
      [] action = "render_status" ->
            [raised |-> FALSE, doc |-> doc, file |-> file,
             replies |-> <<Plain(<<Line("renderer", IF renderer_ready THEN "ready"
                                                    ELSE "not ready")>>)>>]
      [] OTHER ->
            LET r == StatusSummary(doc, renderer_ready, cover) IN
            [raised |-> r.raised, doc |-> doc, file |-> file, replies |-> r.replies]

\* one help_admin invocation; none of these branches has a suspension point
AdminCommand ==
    \E action \in AdminActions, w \in WriteOutcomes :
        LET r == help_admin(action, custom_commands, commands_file, w, initialized,
                            cover_image_path)
        IN
        /\ custom_commands' = r.doc
        /\ commands_file' = r.file
        /\ storeLog' = [op |-> "help_admin", raised |-> r.raised, arg |-> action]
        /\ adminLog' = [called |-> TRUE, action |-> action, raised |-> r.raised,
                        replies |-> r.replies, had_cover |-> HasCover(cover_image_path)]
        /\ UNCHANGED <<webVars, renderVars, taskVars, fileVars, helpVars, extractLog,
                       formatLog>>

\* the admin command, with its dependency install and the initialization the
\* install goes on to
AdminNext ==
    \/ AdminCommand \/ AdminInstallBegin \/ AdminInstallDone
    \/ InitStart \/ InitLaunch \/ InitReinstall \/ InitRestart \/ InitRelaunch

-----------------------------------------------------------------------------
(* The catalog formatter as steps *)

\* ImageGenerator.generate_help_html called with a category list, at a
\* reading `now` of the clock
Format ==
    /\ ~formatLog.called
    /\ \E categories \in CategoryLists, now \in Clock :
          /\ formatLog' = [called |-> TRUE, categories |-> categories, now |-> now,
                           result |-> generate_help_html(categories, now)]
          /\ UNCHANGED <<storeVars, webVars, renderVars, taskVars, fileVars, helpVars,
                         extractLog, adminLog>>

\* generate_help_html called once more with the same list
FormatAgain ==
    /\ formatLog.called
    /\ \E now \in Clock :
          /\ formatLog' = [called |-> TRUE, categories |-> formatLog.categories,
                           now |-> now,
                           result |-> generate_help_html(formatLog.categories, now)]
          /\ UNCHANGED <<storeVars, webVars, renderVars, taskVars, fileVars, helpVars,
                         extractLog, adminLog>>

FormatNext == Format \/ FormatAgain

-----------------------------------------------------------------------------
(* Specifications *)

Init == StoreInit /\ WebInit /\ RenderInit /\ TaskInit /\ FileInit /\ HelpInit /\ ExtractInit

\* a first start: no configuration file yet
FreshInit ==
    /\ Init
    /\ commands_file = FileMissing

\* the renderer as the startup task leaves it when the browser starts, with
\* the cover render failed
ReadyInit ==
    /\ initialized = TRUE
    /\ playwright = TRUE
    /\ browser = 1
    /\ browsers = {1}
    /\ task = [t \in Tasks |->
                 CASE t = "admin"   -> [pc |-> "idle"]
                   [] t = "startup" -> [pc |-> "done"]
                   [] t = "cover"   -> [pc |-> "done", init |-> NoInit,
                                        ret |-> RenderReturn(TRUE, 0)]]
    /\ cover_image_path = [assigned |-> TRUE, path |-> 0]
    /\ adminReplies = <<>>

\* any configuration document on disk, the renderer ready or not
HelpSpecInit ==
    /\ commands_file \in {FileJson(d) : d \in HelpDocs}
    /\ custom_commands = load_custom_commands(commands_file).value
    /\ storeLog = [op |-> "load", raised |-> FALSE, from |-> commands_file]
    /\ WebInit /\ FileInit /\ HelpInit /\ ExtractInit
    /\ (RenderInit /\ TaskInit) \/ ReadyInit

\* the help command over every document
SpecHelp == HelpSpecInit /\ [][HelpNext]_vars

\* the renderer and the tasks that initialize it
SpecRender == FreshInit /\ [][RenderNext]_vars

\* the configuration store alone
SpecStore == Init /\ [][StoreNext]_vars

\* the web editor over the store
SpecWeb == Init /\ [][WebNext]_vars

\* a configured catalog on disk, the renderer not started yet
ImagesInit ==
    /\ Init
    /\ commands_file = FileJson(Dict([enabled |-> TRUE, categories |-> <<CatA>>]))

ImagesNext == RenderNext \/ HelpNext

\* the event loop runs every task that is ready: an awaited browser,
\* subprocess or render call returns, a resumed generator runs on, and a
\* deferred deletion runs once its sleep is over
ImagesFairness ==
    /\ WF_vars(CleanupTempFile)
    /\ WF_vars(HelpResume)
    /\ WF_vars(HelpRenderDone)
    /\ WF_vars(CoverBegin)
    /\ WF_vars(CoverRenderDone)
    /\ WF_vars(InitStart \/ InitLaunch \/ InitReinstall \/ InitRestart \/ InitRelaunch)

\* the help command and the tasks that use the renderer, side by side
SpecImages == ImagesInit /\ [][ImagesNext]_vars /\ ImagesFairness

\* the extractor over every generated registry
SpecExtract == FreshInit /\ [][Extract]_vars

\* the formatter over every generated category list
SpecFormat == FreshInit /\ [][FormatNext]_vars

\* the admin command with the enable or the disable sub-action
AdminToggle == AdminCommand /\ adminLog'.action \in {"enable", "disable"}

\* the callers of the two mutators: the admin enable and disable, and the save
\* endpoint, whose requests suspend before they reach the store
MutatorsNext == AdminToggle \/ SaveBegin \/ SaveFinish

\* a first start, or a file that holds a JSON array
MutatorsInit ==
    /\ Init
    /\ commands_file \in {FileMissing, FileJson(JsonList)}

\* admin commands and web-editor saves interleaved over the store
SpecMutators == MutatorsInit /\ [][MutatorsNext]_vars

\* configuration files the admin command is exercised over
AdminFiles ==
    { FileMissing,
      FileJson(JsonList),
      FileJson(Dict(<<>>)),
      FileJson(Dict([enabled |-> FALSE, categories |-> <<CatA, CatNoCommands>>])) }

\* the renderer ready and the cover image generated: file 1
ReadyWithCoverInit ==
    /\ initialized = TRUE
    /\ playwright = TRUE
    /\ browser = 1
    /\ browsers = {1}
    /\ task = [t \in Tasks |->
                 CASE t = "admin"   -> [pc |-> "idle"]
                   [] t = "startup" -> [pc |-> "done"]
                   [] t = "cover"   -> [pc |-> "done", init |-> NoInit,
                                        ret |-> RenderReturn(TRUE, 1)]]
    /\ cover_image_path = [assigned |-> TRUE, path |-> 1]
    /\ adminReplies = <<>>
    /\ tempFiles = {1}
    /\ cleanups = {}
    /\ created = 1

\* any of the files on disk; the startup tasks not yet run, or finished with or
\* without a cover image
AdminInit ==
    /\ commands_file \in AdminFiles
    /\ custom_commands = load_custom_commands(commands_file).value
    /\ storeLog = [op |-> "load", raised |-> FALSE, from |-> commands_file]
    /\ WebInit /\ HelpInit /\ ExtractInit
    /\ \/ RenderInit /\ TaskInit /\ FileInit
       \/ ReadyInit /\ FileInit
       \/ ReadyWithCoverInit

\* the admin command over the store and the renderer
SpecAdmin == AdminInit /\ [][AdminNext]_vars

-----------------------------------------------------------------------------
(* Properties of the configuration store *)

\* the document {enabled: true, categories: []}, written out key by key
IsDefaultDocument(doc) ==
    /\ doc.type = "dict"
    /\ DOMAIN doc.members = {"enabled", "categories"}
    /\ doc.members.enabled = TRUE
    /\ doc.members.categories = <<>>

HasBothKeys(doc) ==
    /\ doc.type = "dict"
    /\ {"enabled", "categories"} \subseteq DOMAIN doc.members

LoadedJustNow == storeLog.op \in {"load", "reload"}

\* C1: a load (at construction or by reload) from a file that is missing, is
\* not JSON or cannot be read leaves exactly the default document
\* {enabled: true, categories: []} in the store, and the load does not raise.
C1_LoadFailureYieldsDefault ==
    (LoadedJustNow /\ storeLog.from.kind \in {"missing", "corrupt", "unreadable"})
        => (~storeLog.raised /\ IsDefaultDocument(custom_commands))

\* C1 witness: a reload from a file a failed write left truncated
C1_Witness ==
    /\ storeLog.op = "reload"
    /\ storeLog.from.kind = "corrupt"
    /\ IsDefaultDocument(custom_commands)

\* what getCategories() returns now, and what it returns after a reload from disk
ReadsBack(X) ==
    /\ get_categories(custom_commands) = [raised |-> FALSE, value |-> X]
    /\ get_categories(load_custom_commands(commands_file).value)
           = [raised |-> FALSE, value |-> X]

\* C2 as stated: after setCategories(X), getCategories() returns X, and so does
\* a store reloaded from disk.
C2_RoundTripAlways ==
    storeLog.op = "set_categories" => ReadsBack(storeLog.arg)

\* C2 amended: after a setCategories(X) that reported success, getCategories()
\* returns X, and so does a store reloaded from disk.
C2_RoundTripOnSuccess ==
    (storeLog.op = "set_categories" /\ storeLog.ret) => ReadsBack(storeLog.arg)

\* C2 witness: a successful setCategories of a non-empty list over a document
\* that had no categories key
C2_Witness ==
    /\ storeLog.op = "set_categories"
    /\ storeLog.ret
    /\ storeLog.arg = <<CatB, CatA>>
    /\ "enabled" \notin DOMAIN custom_commands.members
    /\ commands_file = FileJson(custom_commands)

\* C9: the document in memory, and the document on disk once the store has
\* written it, both have the keys 'enabled' and 'categories'.
C9_BothKeysAlways ==
    /\ HasBothKeys(custom_commands)
    /\ (storeLog.op \in {"set_enabled", "set_categories"} /\ commands_file.kind = "json")
          => HasBothKeys(commands_file.value)

-----------------------------------------------------------------------------
(* Properties of the web editor *)

\* the category list a GET /api/commands response reports
ReportsCategories(response, X) ==
    /\ response.status = 200
    /\ response.body.type = "dict"
    /\ "categories" \in DOMAIN response.body.members
    /\ response.body.members.categories = X

\* C3: a GET /api/commands that completes after a save request that carried a
\* list reports exactly that list, whatever requests were interleaved before.
C3_LastSaveWins ==
    (httpResponse.route = "GET /api/commands" /\ lastSave.set)
        => ReportsCategories(httpResponse, lastSave.list)

\* C10: a handler that hit an internal error answers with a JSON payload and a
\* 5xx status.
C10_ErrorsAreJson5xx ==
    (httpResponse.route # "none" /\ httpResponse.error)
        => (httpResponse.payload = "json" /\ httpResponse.status >= 500)

-----------------------------------------------------------------------------
(* Properties of the help command *)

\* the document the last help invocation read has the flag / the list
FlagIs(b) ==
    /\ helpLog.document.type = "dict"
    /\ "enabled" \in DOMAIN helpLog.document.members
    /\ helpLog.document.members.enabled = b

ListIs(X) ==
    /\ helpLog.document.type = "dict"
    /\ "categories" \in DOMAIN helpLog.document.members
    /\ helpLog.document.members.categories = X

ListNonEmpty ==
    /\ helpLog.document.type = "dict"
    /\ "categories" \in DOMAIN helpLog.document.members
    /\ helpLog.document.members.categories # <<>>

HasLine(reply, kind, text) ==
    \E i \in 1..Len(reply.lines) : reply.lines[i] = [kind |-> kind, text |-> text]

\* C4: a help invocation that finds the enabled flag false ends at once with
\* the disabled message as its only reply, having used neither the formatter
\* nor the renderer, whatever the categories and the renderer state.
C4_DisabledRefuses ==
    (helpLog.started /\ FlagIs(FALSE))
        => /\ helpLog.done /\ ~helpLog.raised
           /\ Len(helpLog.replies) = 1
           /\ helpLog.replies[1].type = "plain"
           /\ helpLog.replies[1].lines = <<[kind |-> "disabled", text |-> "help is not enabled"]>>
           /\ helpLog.calls = {}
           /\ helpReq.pc = "idle"

\* C4 witness: help refused with categories configured and the renderer ready
C4_Witness ==
    /\ helpLog.started /\ FlagIs(FALSE)
    /\ ListIs(<<CatEmptyDesc>>)
    /\ helpLog.renderer_ready
    /\ helpLog.replies = <<DisabledMessage>>

\* C5: with the flag true and an empty category list the only reply is the
\* plain 'no configured menu' message, which carries the editor URL; it is no
\* error and no render is attempted, whatever the renderer state.
C5_EmptyPointsToEditor ==
    (helpLog.started /\ FlagIs(TRUE) /\ ListIs(<<>>))
        => /\ helpLog.done /\ ~helpLog.raised
           /\ Len(helpLog.replies) = 1
           /\ helpLog.replies[1].type = "plain"
           /\ HasLine(helpLog.replies[1], "no_menu", "no help menu configured")
           /\ HasLine(helpLog.replies[1], "link", "http://localhost:8081")
           /\ ~ \E i \in 1..Len(helpLog.replies[1].lines) :
                   helpLog.replies[1].lines[i].kind = "error"
           /\ "render_html_to_image" \notin helpLog.calls
           /\ helpReq.pc = "idle"

\* C5 witness: the editor pointer given with the renderer ready
C5_Witness ==
    /\ helpLog.started /\ FlagIs(TRUE) /\ ListIs(<<>>)
    /\ helpLog.renderer_ready
    /\ helpLog.replies = <<NoMenuMessage>>

\* the command lines the claim expects: every command of every category, in
\* input order
RECURSIVE ExpectedCommandTexts(_, _, _)
ExpectedCommandTexts(categories, i, j) ==
    IF i > Len(categories) THEN <<>>
    ELSE IF "commands" \notin DOMAIN categories[i] \/ j > Len(categories[i].commands)
    THEN ExpectedCommandTexts(categories, i + 1, 1)
    ELSE LET cmd == categories[i].commands[j]
             nm == IF "name" \in DOMAIN cmd THEN cmd.name ELSE ""
         IN  <<IF "desc" \in DOMAIN cmd /\ cmd.desc # ""
               THEN "/" \o nm \o " - " \o cmd.desc
               ELSE "/" \o nm>>
             \o ExpectedCommandTexts(categories, i, j + 1)

CommandTexts(reply) ==
    LET ls == SelectSeq(reply.lines, LAMBDA l : l.kind = "command")
    IN  [k \in 1..Len(ls) |-> ls[k].text]

\* C6: with the flag true, a non-empty category list and the renderer not
\* ready, the only reply is plain text whose command lines are, in input
\* order, "/name - desc" for a non-empty desc and "/name" otherwise.
C6_TextCatalog ==
    (helpLog.started /\ FlagIs(TRUE) /\ ListNonEmpty /\ ~helpLog.renderer_ready)
        => /\ helpLog.done /\ ~helpLog.raised
           /\ Len(helpLog.replies) = 1
           /\ helpLog.replies[1].type = "plain"
           /\ CommandTexts(helpLog.replies[1])
                = ExpectedCommandTexts(helpLog.document.members.categories, 1, 1)

\* C7: a help invocation over a configuration object raises nothing and, once
\* it has ended, has replied.
C7_HelpNeverRaises ==
    (helpLog.started /\ helpLog.document.type = "dict")
        => /\ ~helpLog.raised
           /\ helpLog.done => Len(helpLog.replies) >= 1

-----------------------------------------------------------------------------
(* Properties of the renderer *)

\* C8: at most one browser process is ever launched and kept.
C8_OneBrowser == Cardinality(browsers) <= 1

\* the category, command and blank lines of a text reply
CatalogPart(reply) ==
    SelectSeq(reply.lines, LAMBDA l : l.kind \in {"category", "command", "blank"})

\* the help invocation found the flag true, categories and the renderer ready
ImagePathTaken ==
    helpLog.started /\ FlagIs(TRUE) /\ ListNonEmpty /\ helpLog.renderer_ready

\* C11 (replies): with the flag true, a non-empty category list and the
\* renderer ready, the invocation raises nothing and ends with exactly one
\* reply: the image at the returned path when the render returned one, and when
\* the render returned none a plain text with the catalog lines of the text
\* path.
C11_OneReply ==
    ImagePathTaken =>
        /\ ~helpLog.raised
        /\ Len(helpLog.replies) <= 1
        /\ helpLog.done => Len(helpLog.replies) = 1
        /\ (helpLog.rendered.called /\ helpLog.rendered.path # 0)
              => helpLog.replies = <<Image(helpLog.rendered.path)>>
        /\ (helpLog.rendered.called /\ helpLog.rendered.path = 0)
              => /\ helpLog.done
                 /\ helpLog.replies[1].type = "plain"
                 /\ CatalogPart(helpLog.replies[1])
                      = CatalogPart(ShowHelpCatalog(helpLog.document.members.categories,
                                                    FALSE, 1).replies[1])
                 /\ CommandTexts(helpLog.replies[1])
                      = ExpectedCommandTexts(helpLog.document.members.categories, 1, 1)

\* C11 (deferred deletion): a deletion is scheduled only for the file of a
\* render that returned a path, and only when the image reply for that file
\* has already been emitted.
C11_CleanupAfterImage ==
    \A f \in cleanups' \ cleanups :
        /\ helpLog.rendered = [called |-> TRUE, path |-> f]
        /\ helpLog.replies = <<Image(f)>>

\* C11: one reply, image or text fallback, and deferred deletion scheduled
\* only in the success case and only after the image reply.
C11_ImageOrFallback == [](C11_OneReply) /\ [][C11_CleanupAfterImage]_vars

\* C11 witness: a first invocation replied with image 1 and scheduled its
\* deletion, a second one fell back to the text catalog
C11_Witness ==
    /\ ImagePathTaken /\ helpLog.done
    /\ helpLog.rendered = [called |-> TRUE, path |-> 0]
    /\ helpLog.replies[1].type = "plain"
    /\ 1 \in cleanups

-----------------------------------------------------------------------------
(* Properties of the temporary image files *)

\* file f is the result a render_html_to_image call returned to its caller
ReturnedToCover(f) == cover_image_path.assigned /\ cover_image_path.path = f

ReturnedToHelp(f) ==
    helpLog.started /\ helpLog.rendered.called /\ helpLog.rendered.path = f

\* C12: every image file a successful render left on disk is eventually
\* deleted, whether the help command or the cover-image generation asked for it.
C12_TempFilesDeleted ==
    \A f \in 1..MaxFiles :
        []((f \in tempFiles /\ (ReturnedToCover(f) \/ ReturnedToHelp(f)))
              => <>(f \notin tempFiles))

-----------------------------------------------------------------------------
(* Properties of render_html_to_image *)

InInitialize(rec) ==
    rec.pc \in {"init_start", "init_launch", "init_reinstall", "init_restart",
                "init_relaunch"}

\* C13 (results): a call whose initialize() failed has returned None without
\* a browsing context; no call raises; a browsing context is only opened on a
\* ready renderer; a failed context / page / screenshot sequence returns None.
C13_NoResultNoRaise ==
    LET c == task["cover"] IN
    /\ (c.init.called /\ ~c.init.ok) => c.ret = RenderReturn(FALSE, 0)
    /\ c.ret.returned => ~c.ret.raised
    /\ c.pc = "rendering" => initialized
    /\ (c.ret.returned /\ c.ret.path # 0) => c.ret.context
    /\ cover_image_path.assigned => (c.ret.returned /\ cover_image_path.path = c.ret.path)
    /\ (helpLog.started /\ helpLog.rendered.called) => helpLog.renderer_ready

\* C13 (steps): a call made while the renderer is not ready enters
\* initialize() first, a call made while it is ready does not; the step in
\* which a call returns after a failed initialize() creates no file.
C13_InitializeFirst ==
    LET c == task["cover"]
        d == task'["cover"]
    IN
    /\ (c.pc = "created" /\ d.pc # "created")
          => IF initialized THEN d.pc = "rendering" /\ ~d.init.called
             ELSE InInitialize(d) \/ (d.init.called /\ ~d.init.ok)
    /\ (~c.ret.returned /\ d.ret.returned /\ d.init.called /\ ~d.init.ok)
          => /\ UNCHANGED <<tempFiles, created>>
             /\ cover_image_path' = [assigned |-> TRUE, path |-> 0]

\* C13: render_html_to_image on a renderer that is not ready calls
\* initialize() first and returns None, with no browsing context and no file,
\* when that fails; an exception in the render sequence gives None and is not
\* raised to the caller.
C13_RenderGuarded == [](C13_NoResultNoRaise) /\ [][C13_InitializeFirst]_vars

\* C13 witness: the cover render found the renderer not ready, its
\* initialize() failed after the reinstall, and the call returned None while
\* an image of the help command was on disk
C13_Witness ==
    /\ task["cover"].init = [called |-> TRUE, ok |-> FALSE]
    /\ task["cover"].ret = RenderReturn(FALSE, 0)
    /\ cover_image_path = [assigned |-> TRUE, path |-> 0]
    /\ tempFiles # {}

-----------------------------------------------------------------------------
(* Properties of a help request on a renderer that is not ready *)

\* the last help invocation found the flag true, categories, and the renderer
\* not ready
TextPathTaken ==
    helpLog.started /\ FlagIs(TRUE) /\ ListNonEmpty /\ ~helpLog.renderer_ready

SomeTaskInitializing == \E t \in Tasks : InInitialize(task[t])

\* C14 as stated: a help request that finds the renderer not ready attempts
\* the renderer initialization itself (it reaches render_html_to_image, whose
\* first step on such a renderer is initialize()).
C14_HelpInitializes ==
    TextPathTaken => "render_html_to_image" \in helpLog.calls

\* C14 amended (result): a help request that finds the renderer not ready has
\* used neither the formatter nor the renderer, is over at once, and has sent
\* no image.
C14_NoInitializeResult ==
    TextPathTaken =>
        /\ helpLog.calls = {}
        /\ ~helpLog.rendered.called
        /\ helpLog.done /\ helpReq.pc = "idle"
        /\ \A i \in 1..Len(helpLog.replies) : helpLog.replies[i].type = "plain"

\* C14 amended (step): the step of such a request leaves the renderer, and
\* every task that is initializing it, as they were.
C14_NoInitializeStep ==
    (helpLog' # helpLog /\ ~helpLog'.renderer_ready)
        => UNCHANGED <<renderVars, taskVars, fileVars>>

\* C14 amended: a help request that arrives while the renderer is not ready,
\* also in the middle of an initialization, does not attempt initialization.
C14_HelpDoesNotInitialize ==
    [](C14_NoInitializeResult) /\ [][C14_NoInitializeStep]_vars

\* C14 witness: the text catalog was sent while the startup task was waiting
\* for its browser launch
C14_Witness ==
    /\ TextPathTaken
    /\ task["startup"].pc = "init_launch"
    /\ ~initialized
    /\ Len(helpLog.replies) = 1 /\ helpLog.replies[1].type = "plain"

-----------------------------------------------------------------------------
(* Properties of the catalog extractor *)

\* the handler carries a command or command-group filter with a non-empty name
CarriesResolvableName(handler) ==
    \E i \in 1..Len(handler.event_filters) :
        LET f == handler.event_filters[i] IN
        \/ f.type = "CommandFilter" /\ f.command_name # ""
        \/ f.type = "CommandGroupFilter" /\ f.group_name # ""

\* star s of the registry is one the output may list under its name
Listable(registry, s) ==
    /\ s.activated
    /\ s.name # SelfName
    /\ s.name # "" /\ s.module_path # ""
    /\ \E j \in 1..Len(registry.star_handlers_registry) :
          LET h == registry.star_handlers_registry[j] IN
          /\ h.is_metadata
          /\ h.handler_module_path = s.module_path
          /\ CarriesResolvableName(h)

\* C15: the output has no key for the plugin itself, every key is the name of
\* an activated plugin one of whose module-matching handlers carries a
\* non-empty command or group name, and every key maps to a non-empty list.
C15_KeysJustified ==
    extractLog.called =>
        LET registry == extractLog.registry
            result   == extractLog.result
        IN
        /\ SelfName \notin DOMAIN result
        /\ \A k \in DOMAIN result :
              /\ result[k] # <<>>
              /\ \E i \in 1..Len(registry.stars) :
                    registry.stars[i].name = k /\ Listable(registry, registry.stars[i])

\* C15 witness: the plugin itself and an inactive plugin were registered with
\* resolvable handlers, and the output lists neither
C15_Witness ==
    /\ extractLog.called
    /\ extractLog.registry.stars =
          << [name |-> SelfName, module_path |-> "plugins.self", activated |-> TRUE],
             [name |-> "asleep", module_path |-> "plugins.demo", activated |-> FALSE] >>
    /\ \E j \in 1..Len(extractLog.registry.star_handlers_registry) :
          extractLog.registry.star_handlers_registry[j].handler_module_path = "plugins.self"
    /\ \E j \in 1..Len(extractLog.registry.star_handlers_registry) :
          extractLog.registry.star_handlers_registry[j].handler_module_path = "plugins.demo"
    /\ extractLog.result = <<>>

\* the formatted strings the scan meets for plugin name k, in scanning order:
\* plugins in registry order, and for each the handlers in registry order
RECURSIVE SeenFor(_, _, _)
SeenFor(k, stars, handlers) ==
    IF stars = <<>> THEN <<>>
    ELSE LET s == Head(stars)
             kept == SelectSeq(handlers, LAMBDA h :
                        /\ h.is_metadata
                        /\ h.handler_module_path = s.module_path
                        /\ FirstCommandName(h.event_filters) # "")
             here == [i \in 1..Len(kept) |->
                        FormatCommand(FirstCommandName(kept[i].event_filters), kept[i].desc)]
         IN  (IF s.activated /\ s.name = k /\ s.name # SelfName /\ s.module_path # ""
              THEN here ELSE <<>>)
             \o SeenFor(k, Tail(stars), handlers)

FirstSeenAt(seq, x) == CHOOSE i \in 1..Len(seq) : seq[i] = x /\ \A j \in 1..(i - 1) : seq[j] # x

\* C16: a plugin's list holds no string twice, holds exactly the strings the
\* scan met for the plugin, and orders them by where each was met first.
C16_DedupFirstSeen ==
    extractLog.called =>
        \A k \in DOMAIN extractLog.result :
            LET list == extractLog.result[k]
                seen == SeenFor(k, extractLog.registry.stars,
                                extractLog.registry.star_handlers_registry)
            IN
            /\ \A i, j \in 1..Len(list) : i # j => list[i] # list[j]
            /\ {list[i] : i \in 1..Len(list)} = {seen[i] : i \in 1..Len(seen)}
            /\ \A i, j \in 1..Len(list) :
                  i < j => FirstSeenAt(seen, list[i]) < FirstSeenAt(seen, list[j])

\* C16 witness: the same formatted string was met twice and is listed once
C16_Witness ==
    /\ extractLog.called
    /\ "demo" \in DOMAIN extractLog.result
    /\ extractLog.result["demo"] = <<"hello#d">>
    /\ Len(SeenFor("demo", extractLog.registry.stars,
                   extractLog.registry.star_handlers_registry)) = 2

\* the handler carries both a command filter and a command-group filter,
\* both with a name
CarriesBoth(handler) ==
    /\ \E i \in 1..Len(handler.event_filters) :
          handler.event_filters[i].type = "CommandFilter"
          /\ handler.event_filters[i].command_name # ""
    /\ \E i \in 1..Len(handler.event_filters) :
          handler.event_filters[i].type = "CommandGroupFilter"
          /\ handler.event_filters[i].group_name # ""

\* the name of the handler's command filter that stands first among its
\* command filters
CommandFilterName(handler) ==
    LET i == CHOOSE i \in 1..Len(handler.event_filters) :
                /\ handler.event_filters[i].type = "CommandFilter"
                /\ \A j \in 1..(i - 1) : handler.event_filters[j].type # "CommandFilter"
    IN  handler.event_filters[i].command_name

\* the name of the first filter, in list order, that is a command filter or a
\* command-group filter
FirstOfEitherName(handler) ==
    LET i == CHOOSE i \in 1..Len(handler.event_filters) :
                /\ handler.event_filters[i].type \in {"CommandFilter", "CommandGroupFilter"}
                /\ \A j \in 1..(i - 1) :
                      handler.event_filters[j].type
                          \notin {"CommandFilter", "CommandGroupFilter"}
        f == handler.event_filters[i]
    IN  IF f.type = "CommandFilter" THEN f.command_name ELSE f.group_name

\* the registry is one plugin "demo", active, and one handler of its module
\* that carries both kinds of filter
OneHandlerWithBoth ==
    /\ extractLog.called
    /\ extractLog.registry.stars =
          << [name |-> "demo", module_path |-> "plugins.demo", activated |-> TRUE] >>
    /\ Len(extractLog.registry.star_handlers_registry) = 1
    /\ extractLog.registry.star_handlers_registry[1].handler_module_path = "plugins.demo"
    /\ CarriesBoth(extractLog.registry.star_handlers_registry[1])

\* C20 as stated: a handler that carries a command filter and a group filter
\* is listed under the command filter's name, wherever the two stand in the
\* filter list.
C20_CommandBeforeGroup ==
    OneHandlerWithBoth =>
        LET h == extractLog.registry.star_handlers_registry[1] IN
        extractLog.result = [demo |-> <<FormatCommand(CommandFilterName(h), h.desc)>>]

\* C20 amended: such a handler is listed under the name of whichever of its
\* command and group filters stands first in the filter list.
C20_FirstInListOrder ==
    /\ OneHandlerWithBoth =>
          LET h == extractLog.registry.star_handlers_registry[1] IN
          extractLog.result = [demo |-> <<FormatCommand(FirstOfEitherName(h), h.desc)>>]
    /\ extractLog.called =>
          \A i \in 1..Len(extractLog.registry.stars),
             j \in 1..Len(extractLog.registry.star_handlers_registry) :
              LET s == extractLog.registry.stars[i]
                  h == extractLog.registry.star_handlers_registry[j]
              IN  (/\ s.activated /\ s.name # SelfName /\ s.module_path # ""
                   /\ h.is_metadata /\ h.handler_module_path = s.module_path
                   /\ CarriesBoth(h))
                  => /\ s.name \in DOMAIN extractLog.result
                     /\ InSeq(FormatCommand(FirstOfEitherName(h), h.desc),
                              extractLog.result[s.name])

\* C20 witness: the group filter stands before the command filter, and the
\* handler is listed under the group name
C20_Witness ==
    /\ OneHandlerWithBoth
    /\ extractLog.registry.star_handlers_registry[1].event_filters
          = <<OtherFilter, ToolsFilter, HelloFilter>>
    /\ extractLog.result = [demo |-> <<"tools">>]

-----------------------------------------------------------------------------
(* Properties of the catalog formatter *)

\* the commands of a category list, one pair per command
CommandPositions(categories) ==
    {<<i, j>> \in (1..Len(categories)) \X (1..MaxCommands + 1) :
        j <= Len(categories[i].commands)}

\* C17: for every list of categories that have a name and a command list,
\* the empty list included, the formatter returns a document whose header
\* shows len(categories) categories and as many commands as the lists hold
\* together (0 and 0 for the empty list); it returns no document only for a
\* list with an entry that lacks one of the two keys.
C17_HeaderCounts ==
    formatLog.called =>
        LET categories == formatLog.categories
            wellFormed == \A i \in 1..Len(categories) :
                              {"name", "commands"} \subseteq DOMAIN categories[i]
        IN
        /\ formatLog.result.raised = ~wellFormed
        /\ wellFormed =>
              /\ formatLog.result.html.category_count = Len(categories)
              /\ formatLog.result.html.command_count
                    = Cardinality(CommandPositions(categories))
              /\ (categories = <<>>) =>
                    /\ formatLog.result.html.category_count = 0
                    /\ formatLog.result.html.command_count = 0

\* C17 witness: two categories with two commands and one command
C17_Witness ==
    /\ formatLog.called
    /\ Len(formatLog.categories) = 2
    /\ ~formatLog.result.raised
    /\ Len(formatLog.categories[1].commands) = 2
    /\ Len(formatLog.categories[2].commands) = 1
    /\ formatLog.result.html.category_count = 2
    /\ formatLog.result.html.command_count = 3

\* C18: two invocations with the same category list return the same document,
\* and an invocation changes nothing but its own result.
C18_Deterministic ==
    [][(formatLog.called /\ formatLog'.called
        /\ formatLog'.categories = formatLog.categories)
          => /\ formatLog'.result = formatLog.result
             /\ UNCHANGED <<storeVars, webVars, renderVars, taskVars, fileVars, helpVars,
                            extractLog, adminLog>>]_vars


-----------------------------------------------------------------------------
(* Properties of the admin command *)

\* the invocation took the else branch: a sub-action that is none of the
\* enumerated ones, or the cover sub-action with no cover image generated
DefaultCase(log) ==
    /\ log.called
    /\ \/ log.action \notin EnumeratedActions
       \/ log.action = "cover" /\ ~log.had_cover

\* the commands of the categories of a document, counted over the entries
\* that have a command list
RECURSIVE CountCommands(_)
CountCommands(categories) ==
    IF categories = <<>> THEN 0
    ELSE (IF "commands" \in DOMAIN Head(categories) THEN Len(Head(categories).commands) ELSE 0)
         + CountCommands(Tail(categories))

\* what the summary has to report of a document and a renderer
ReportedLines(doc, ready) ==
    LET categories == IF doc.type = "dict" /\ "categories" \in DOMAIN doc.members
                      THEN doc.members.categories ELSE <<>>
        enabled    == IF doc.type = "dict" /\ "enabled" \in DOMAIN doc.members
                      THEN doc.members.enabled ELSE TRUE
    IN  { Line("status", IF enabled THEN "enabled" ELSE "disabled"),
          Line("categories", ToString(Len(categories))),
          Line("commands", ToString(CountCommands(categories))),
          Line("renderer", IF ready THEN "ready" ELSE "not ready") }

\* C19: an admin command with a sub-action that is none of the enumerated ones,
\* or with the cover sub-action when no cover image was generated, replies once
\* with the summary reporting the enabled flag, the category count, the command
\* count and the renderer readiness, and leaves the document, the file and the
\* renderer as they were
C19_DefaultSummary ==
    [][AdminCommand /\ DefaultCase(adminLog') =>
         /\ UNCHANGED <<custom_commands, commands_file, renderVars>>
         /\ ~adminLog'.raised
         /\ Len(adminLog'.replies) = 1
         /\ adminLog'.replies[1].type = "plain"
         /\ \A l \in ReportedLines(custom_commands, initialized) :
                InSeq(l, adminLog'.replies[1].lines)]_vars


-----------------------------------------------------------------------------
(* Properties of the two mutators together *)

\* a key of the document: whether it is there, and its value
Member(doc, key) ==
    IF doc.type = "dict" /\ key \in DOMAIN doc.members
    THEN [present |-> TRUE, value |-> doc.members[key]]
    ELSE [present |-> FALSE]

\* a step that calls set_enabled: the admin enable or disable, which leaves
\* the suspended requests as they are
SetEnabledStep ==
    /\ saveInFlight' = saveInFlight
    /\ AdminToggle

\* a step that calls set_categories: a save request with a usable body resumes
SetCategoriesStep ==
    /\ saveInFlight' # saveInFlight
    /\ storeLog'.op = "set_categories"
    /\ httpResponse' \in {SaveResponse(TRUE, FALSE), SaveResponse(FALSE, TRUE)}
    /\ SaveFinish

\* the file after a mutator: untouched or truncated by a failed write, or
\* the in-memory document
WrittenFromMemory ==
    commands_file' \in {commands_file, FileCorrupt, JsonDump(custom_commands')}

\* C21: set_enabled leaves the category list as it was and set_categories
\* leaves the enabled flag as it was, in memory and in the document the call
\* writes to disk, however admin commands and web-editor saves interleave
C21_MutatorsDoNotInterfere ==
    [][/\ SetEnabledStep =>
            /\ Member(custom_commands', "categories") = Member(custom_commands, "categories")
            /\ WrittenFromMemory
       /\ SetCategoriesStep =>
            /\ Member(custom_commands', "enabled") = Member(custom_commands, "enabled")
            /\ WrittenFromMemory]_vars

\* an admin disable ran, a save that resumed after it stored a list while another
\* request was still suspended, and the document in memory and on disk carries
\* both the flag and the list
C21_Witness ==
    /\ adminLog.called
    /\ adminLog.action = "disable"
    /\ ~adminLog.raised
    /\ saveInFlight # EmptyBag
    /\ storeLog.op = "set_categories"
    /\ httpResponse = SaveResponse(TRUE, FALSE)
    /\ lastSave = [set |-> TRUE, list |-> <<CatA>>]
    /\ custom_commands = Dict([enabled |-> FALSE, categories |-> <<CatA>>])
    /\ commands_file = JsonDump(custom_commands)
=============================================================================
